---------------------------- MODULE Spec2Model ----------------------------
(***************************************************************************)
(* A model of nvim-simple-keybind-helper (src/main.go): the resolution of  *)
(* the configuration path, the loading and defaulting of the               *)
(* configuration, the row filter and the Browsing/Searching controller of  *)
(* the interactive loop.  Go strings are TLA+ strings; a Go slice is a     *)
(* record [nil, elems] so that a nil slice and an empty one differ.        *)
(***************************************************************************)
EXTENDS Integers, Sequences, FiniteSets, TLC

VARIABLES
    args,         \* os.Args[1:]
    envValue,     \* os.Getenv("NVIM_HELPER_CONFIG")
    pc,           \* position of main: start, resolved, loaded, loop, exited
    flagValue,    \* *configPathFlag after flags.Parse
    configPath,   \* main's configPath
    err,          \* the error main last saw: "" is nil
    fileRead,     \* what loadConfig found at the path
    loadedCfg,    \* what loadConfig returned to main
    cfg,          \* main's cfg
    exitCode,     \* the exit code of the process, -1 while it runs
    allRows,      \* model.allRows
    tableRows,    \* the rows of model.table
    tableCursor,  \* the cursor of model.table
    searchValue,  \* model.search.Value()
    searchPos,    \* the cursor of model.search
    searchFocus,  \* whether model.search is focused
    searchMode,   \* model.searchMode
    lastKey,      \* msg.String() of the key Update handled last
    lastCmd,      \* the tea.Cmd Update returned last: "quit" is tea.Quit, "nil" any other
    query         \* the argument of a direct call of filterRows

vars == <<args, envValue, pc, flagValue, configPath, err, fileRead, loadedCfg, cfg,
          exitCode, allRows, tableRows, tableCursor, searchValue, searchPos,
          searchFocus, searchMode, lastKey, lastCmd, query>>

startupVars == <<args, envValue, flagValue, configPath, err, fileRead, loadedCfg, cfg>>
modelVars == <<allRows, tableRows, tableCursor, searchValue, searchPos,
               searchFocus, searchMode>>

----------------------------------------------------------------------------
(* Bounds *)

MaxArgs == 2
MaxRows == 2
MaxQuery == 2
MaxDefaultRows == 3

----------------------------------------------------------------------------
(* Arithmetic of the table widget and of the bounds *)

Min(a, b) == IF a < b THEN a ELSE b
Max(a, b) == IF a > b THEN a ELSE b

----------------------------------------------------------------------------
(* Strings *)

Char(s, i) == SubSeq(s, i, i)

UpperLetters == "ABCDEFGHIJKLMNOPQRSTUVWXYZ"
LowerLetters == "abcdefghijklmnopqrstuvwxyz"

UpperChars == {Char(UpperLetters, i) : i \in 1..Len(UpperLetters)}
LowerOf ==
    [c \in UpperChars |->
        Char(LowerLetters, CHOOSE i \in 1..Len(UpperLetters) : Char(UpperLetters, i) = c)]

ToLowerChar(c) == IF c \in UpperChars THEN LowerOf[c] ELSE c

(* strings.ToLower, letter by letter; the string is split in halves to keep *)
(* the evaluation shallow                                                   *)
RECURSIVE ToLower(_)
ToLower(s) ==
    IF Len(s) = 0 THEN ""
    ELSE IF Len(s) = 1 THEN ToLowerChar(s)
    ELSE ToLower(SubSeq(s, 1, Len(s) \div 2)) \o ToLower(SubSeq(s, Len(s) \div 2 + 1, Len(s)))

Contains(s, substr) ==
    \E i \in 0..(Len(s) - Len(substr)) : SubSeq(s, i + 1, i + Len(substr)) = substr

IsSpace(c) == c \in {" ", "\t", "\n", "\r"}

RECURSIVE TrimLeft(_)
TrimLeft(s) ==
    IF s # "" /\ IsSpace(Char(s, 1)) THEN TrimLeft(SubSeq(s, 2, Len(s))) ELSE s

RECURSIVE TrimRight(_)
TrimRight(s) ==
    IF s # "" /\ IsSpace(Char(s, Len(s))) THEN TrimRight(SubSeq(s, 1, Len(s) - 1)) ELSE s

TrimSpace(s) == TrimRight(TrimLeft(s))

----------------------------------------------------------------------------
(* Slices *)

NilSlice == [nil |-> TRUE, elems |-> <<>>]
Slice(s) == [nil |-> FALSE, elems |-> s]

----------------------------------------------------------------------------
(* model.filterRows *)

(* RowMatchesFrom with the field compared as written, not lowercased *)
RowMatchesFrom_CaseSensitive(row, q, j) ==
    \E k \in j..Len(row) : Contains(row[k], q)

RECURSIVE RowMatchesFrom(_, _, _)
RowMatchesFrom(row, q, j) ==
    IF j > Len(row) THEN FALSE
    ELSE IF Contains(ToLower(row[j]), q) THEN TRUE
    ELSE RowMatchesFrom(row, q, j + 1)

(* lines 64-73: the rows that match are appended in order *)
FilterLoop(rows, q) == SelectSeq(rows, LAMBDA row : RowMatchesFrom(row, q, 1))

filterRows(rows, q) ==
    LET lq == ToLower(q) IN
    IF lq = "" THEN rows ELSE FilterLoop(rows, lq)

----------------------------------------------------------------------------
(* flag.FlagSet.Parse with the one string flag "config", as called by        *)
(* resolveConfigPath.  A parse state is the remaining arguments and the      *)
(* value the flag holds.                                                     *)

ParseResult(seen, e, rest, value) ==
    [seen |-> seen, err |-> e, args |-> rest, value |-> value]

parseOne(fargs, value) ==
    IF Len(fargs) = 0 THEN ParseResult(FALSE, "", fargs, value)
    ELSE
    LET s == fargs[1] IN
    IF Len(s) < 2 \/ Char(s, 1) # "-" THEN ParseResult(FALSE, "", fargs, value)
    ELSE
    LET numMinuses == IF Char(s, 2) = "-" THEN 2 ELSE 1 IN
    IF numMinuses = 2 /\ Len(s) = 2 THEN ParseResult(FALSE, "", Tail(fargs), value)
    ELSE
    LET name0 == SubSeq(s, numMinuses + 1, Len(s)) IN
    IF Len(name0) = 0 \/ Char(name0, 1) \in {"-", "="}
    THEN ParseResult(FALSE, "bad flag syntax", fargs, value)
    ELSE
    LET eqs == {i \in 2..Len(name0) : Char(name0, i) = "="}
        hasValue == eqs # {}
        eq == CHOOSE i \in eqs : \A k \in eqs : i <= k
        name == IF hasValue THEN SubSeq(name0, 1, eq - 1) ELSE name0
        val == IF hasValue THEN SubSeq(name0, eq + 1, Len(name0)) ELSE ""
        rest == Tail(fargs)
    IN
    IF name # "config"
    THEN IF name \in {"help", "h"}
         THEN ParseResult(FALSE, "flag: help requested", rest, value)
         ELSE ParseResult(FALSE, "flag provided but not defined", rest, value)
    ELSE IF hasValue THEN ParseResult(TRUE, "", rest, val)
    ELSE IF Len(rest) > 0 THEN ParseResult(TRUE, "", Tail(rest), rest[1])
    ELSE ParseResult(FALSE, "flag needs an argument", rest, value)

RECURSIVE Parse(_, _)
Parse(fargs, value) ==
    LET r == parseOne(fargs, value) IN
    IF r.seen THEN Parse(r.args, r.value) ELSE r

(* resolveConfigPath returning the environment value untrimmed *)
resolveConfigPath_EnvUntrimmed(a, env) ==
    LET r == Parse(a, "") IN
    IF r.err # "" THEN [path |-> "", err |-> r.err, flag |-> r.value]
    ELSE IF TrimSpace(r.value) # ""
    THEN [path |-> TrimSpace(r.value), err |-> "", flag |-> r.value]
    ELSE [path |-> env, err |-> "", flag |-> r.value]

resolveConfigPath(a, env) ==
    LET r == Parse(a, "") IN
    IF r.err # "" THEN [path |-> "", err |-> r.err, flag |-> r.value]
    ELSE IF TrimSpace(r.value) # ""
    THEN [path |-> TrimSpace(r.value), err |-> "", flag |-> r.value]
    ELSE [path |-> TrimSpace(env), err |-> "", flag |-> r.value]

----------------------------------------------------------------------------
(* appConfig, defaultConfig and loadConfig *)

DefaultColumns ==
    << [Title |-> "Mode", Width |-> 8],
       [Title |-> "Keybind", Width |-> 16],
       [Title |-> "Action", Width |-> 80] >>

BuiltinRows ==
    <<
      [Mode |-> "visual", Keybind |-> "y", Action |-> "yank (copy) selection"],
      [Mode |-> "visual", Keybind |-> ">", Action |-> "indent selection right"],
      [Mode |-> "visual", Keybind |-> "<", Action |-> "indent selection left"],
      [Mode |-> "insert", Keybind |-> "<C-h>", Action |-> "delete previous character"],
      [Mode |-> "insert", Keybind |-> "<C-w>", Action |-> "delete all from the cursor back to  word boundary (space or punctuation)"],
      [Mode |-> "insert", Keybind |-> "<C-c>", Action |-> "exit insert mode"],
      [Mode |-> "insert", Keybind |-> "<Esc>", Action |-> "exit insert mode"],
      [Mode |-> "normal", Keybind |-> "5h 20j 3k 4l", Action |-> "move cursor left/down/up/right by amount"],
      [Mode |-> "normal", Keybind |-> "h j k l", Action |-> "move cursor left/down/up/right"],
      [Mode |-> "normal", Keybind |-> "w", Action |-> "move to next word"],
      [Mode |-> "normal", Keybind |-> "b", Action |-> "move to previous word"],
      [Mode |-> "normal", Keybind |-> "gg", Action |-> "go to top of file"],
      [Mode |-> "normal", Keybind |-> "G", Action |-> "go to bottom of file"],
      [Mode |-> "normal", Keybind |-> "0", Action |-> "go to beginning of line"],
      [Mode |-> "normal", Keybind |-> "$", Action |-> "go to end of line"],
      [Mode |-> "normal", Keybind |-> "<C-f>", Action |-> "page down and centre, we added zz"],
      [Mode |-> "normal", Keybind |-> "<C-b>", Action |-> "page up and centre, we added zz"],
      [Mode |-> "normal", Keybind |-> "dd", Action |-> "delete (cut) current line"],
      [Mode |-> "normal", Keybind |-> "yy", Action |-> "yank current line"],
      [Mode |-> "normal", Keybind |-> "<S-P>", Action |-> "paste clipboard"],
      [Mode |-> "normal", Keybind |-> "p", Action |-> "paste after cursor"],
      [Mode |-> "normal", Keybind |-> "u", Action |-> "undo last change"],
      [Mode |-> "normal", Keybind |-> "<C-r>", Action |-> "redo last undone change"],
      [Mode |-> "normal", Keybind |-> "/", Action |-> "search forward"],
      [Mode |-> "normal", Keybind |-> "?", Action |-> "search backward"],
      [Mode |-> "normal", Keybind |-> "n", Action |-> "next search match (need to use / or ? before hand)"],
      [Mode |-> "normal", Keybind |-> "N", Action |-> "previous search match (need to use / or ? before hand)"],
      [Mode |-> "normal", Keybind |-> "<C-o>", Action |-> "jump back from jump list (anything that moves the cursor counts as this)"],
      [Mode |-> "normal", Keybind |-> "<C-i>", Action |-> "jump forward in jump list (anything that moves the cursor counts as this)"],
      [Mode |-> "normal", Keybind |-> "gd", Action |-> "go to definition (LSP if attached)"],
      [Mode |-> "normal", Keybind |-> "grr", Action |-> "show references (LSP)"],
      [Mode |-> "normal", Keybind |-> "K", Action |-> "hover documentation (LSP or man page)"],
      [Mode |-> "normal", Keybind |-> "<leader>h", Action |-> "open harpoon menu"],
      [Mode |-> "normal", Keybind |-> "<leader>a", Action |-> "append current file to harpoon"],
      [Mode |-> "normal", Keybind |-> "<leader>fo", Action |-> "format and organize imports"],
      [Mode |-> "normal", Keybind |-> "<leader>ff", Action |-> "find file in project"],
      [Mode |-> "normal", Keybind |-> "di\"", Action |-> "delete inside current double quotes"],
      [Mode |-> "normal", Keybind |-> "da\"", Action |-> "delete around current double quotes (including quotes)"],
      [Mode |-> "normal", Keybind |-> "dw", Action |-> "delete from cursor to start of next word"],
      [Mode |-> "normal", Keybind |-> "db", Action |-> "delete from cursor to start of previous word"],
      [Mode |-> "normal", Keybind |-> "diw", Action |-> "delete inner word (current word only)"],
      [Mode |-> "normal", Keybind |-> "daw", Action |-> "delete around word (word plus surrounding space)"],
      [Mode |-> "normal", Keybind |-> "ciw", Action |-> "change inner word (delete current word, and puts in insert mode)"],
      [Mode |-> "normal", Keybind |-> "yiw", Action |-> "yank inner word"],
      [Mode |-> "normal", Keybind |-> "di(", Action |-> "delete inside parentheses"],
      [Mode |-> "normal", Keybind |-> "da(", Action |-> "delete around parentheses"]
    >>

(* The rows of defaultConfig the model keeps: the first MaxDefaultRows *)
DefaultRows == SubSeq(BuiltinRows, 1, Min(MaxDefaultRows, Len(BuiltinRows)))

DefaultHeight == 7

defaultConfig ==
    [Columns |-> Slice(DefaultColumns), Rows |-> Slice(DefaultRows), Height |-> DefaultHeight]

ZeroConfig == [Columns |-> NilSlice, Rows |-> NilSlice, Height |-> 0]

(* What os.ReadFile and json.Unmarshal see at the path: a file that cannot  *)
(* be read, content that does not decode into appConfig, or a JSON object   *)
(* whose three fields are each absent, null or a value.                     *)
Absent == [kind |-> "absent", v |-> <<>>]
Null == [kind |-> "null", v |-> <<>>]
Array(s) == [kind |-> "value", v |-> s]
NoNumber == [kind |-> "absent", v |-> 0]
Number(n) == [kind |-> "value", v |-> n]

NoFile == [kind |-> "none", columns |-> Absent, rows |-> Absent, height |-> NoNumber]
Unreadable == [kind |-> "unreadable", columns |-> Absent, rows |-> Absent, height |-> NoNumber]
Malformed == [kind |-> "malformed", columns |-> Absent, rows |-> Absent, height |-> NoNumber]
(* content that fails to decode after some fields were already decoded *)
MalformedAfter(c, r, h) == [kind |-> "malformed", columns |-> c, rows |-> r, height |-> h]
JsonFile(c, r, h) == [kind |-> "json", columns |-> c, rows |-> r, height |-> h]

UnmarshalSlice(j) == IF j.kind = "value" THEN Slice(j.v) ELSE NilSlice
UnmarshalInt(j) == IF j.kind = "value" THEN j.v ELSE 0

Unmarshal(file) ==
    [Columns |-> UnmarshalSlice(file.columns),
     Rows |-> UnmarshalSlice(file.rows),
     Height |-> UnmarshalInt(file.height)]

(* loadConfig defaulting the height only when it is negative *)
loadConfig_HeightNegativeOnly(file) ==
    LET defaultCfg == defaultConfig IN
    IF file.kind = "unreadable" THEN [cfg |-> ZeroConfig, err |-> "read"]
    ELSE IF file.kind = "malformed" THEN [cfg |-> ZeroConfig, err |-> "unmarshal"]
    ELSE
    LET c0 == Unmarshal(file)
        c1 == IF Len(c0.Columns.elems) = 0 THEN [c0 EXCEPT !.Columns = defaultCfg.Columns] ELSE c0
        c2 == IF c1.Height < 0 THEN [c1 EXCEPT !.Height = defaultCfg.Height] ELSE c1
        c3 == IF c2.Rows.nil THEN [c2 EXCEPT !.Rows = Slice(<<>>)] ELSE c2
    IN [cfg |-> c3, err |-> ""]

loadConfig(file) ==
    LET defaultCfg == defaultConfig IN
    IF file.kind = "unreadable" THEN [cfg |-> ZeroConfig, err |-> "read"]
    ELSE IF file.kind = "malformed" THEN [cfg |-> ZeroConfig, err |-> "unmarshal"]
    ELSE
    LET c0 == Unmarshal(file)
        c1 == IF Len(c0.Columns.elems) = 0 THEN [c0 EXCEPT !.Columns = defaultCfg.Columns] ELSE c0
        c2 == IF c1.Height <= 0 THEN [c1 EXCEPT !.Height = defaultCfg.Height] ELSE c1
        c3 == IF c2.Rows.nil THEN [c2 EXCEPT !.Rows = Slice(<<>>)] ELSE c2
    IN [cfg |-> c3, err |-> ""]

configRowsToTableRows(rows) ==
    [i \in 1..Len(rows) |-> <<rows[i].Mode, rows[i].Keybind, rows[i].Action>>]

----------------------------------------------------------------------------
(* The widgets of the model: textinput.Model (value and cursor) and         *)
(* table.Model (rows and cursor), as far as Update drives them.             *)

Runes == {"g", "G", "q", "j", "/"}
Keys == Runes \cup {"ctrl+c", "enter", "esc", "backspace", "left", "right", "up", "down"}

clamp(v, low, high) == Min(Max(v, low), high)

(* textinput.Model.Update on a focused input *)
searchUpdate(value, pos, key) ==
    IF key \in Runes
    THEN [value |-> SubSeq(value, 1, pos) \o key \o SubSeq(value, pos + 1, Len(value)),
          pos |-> pos + 1]
    ELSE IF key = "backspace" /\ pos > 0
    THEN [value |-> SubSeq(value, 1, pos - 1) \o SubSeq(value, pos + 1, Len(value)),
          pos |-> pos - 1]
    ELSE IF key = "left" /\ pos > 0 THEN [value |-> value, pos |-> pos - 1]
    ELSE IF key = "right" /\ pos < Len(value) THEN [value |-> value, pos |-> pos + 1]
    ELSE [value |-> value, pos |-> pos]

(* table.Model.SetRows: the cursor is pulled back into the new rows *)
SetRowsCursor(cursor, rows) == IF cursor > Len(rows) - 1 THEN Len(rows) - 1 ELSE cursor

(* table.Model.Update on a focused table: the key map's line moves *)
tableUpdate(cursor, rows, key) ==
    IF key \in {"up"} THEN clamp(cursor - 1, 0, Len(rows) - 1)
    ELSE IF key \in {"down", "j"} THEN clamp(cursor + 1, 0, Len(rows) - 1)
    ELSE IF key = "g" THEN clamp(0, 0, Len(rows) - 1)
    ELSE IF key = "G" THEN clamp(Len(rows) - 1, 0, Len(rows) - 1)
    ELSE cursor

----------------------------------------------------------------------------
(* model.Update, one operator per branch *)

Running == pc \in {"loop", "quitting"}

(* lines 85-88: ctrl+c in either mode *)
CtrlC ==
    /\ lastCmd' = "quit"
    /\ pc' = "quitting"
    /\ UNCHANGED modelVars

(* SearchEnter clearing the query as esc does *)
SearchEnter_ClearsQuery ==
    /\ searchMode' = FALSE
    /\ searchFocus' = FALSE
    /\ searchValue' = ""
    /\ searchPos' = 0
    /\ lastCmd' = "nil"
    /\ UNCHANGED <<pc, allRows, tableRows, tableCursor>>

(* lines 95-99: enter commits the search *)
SearchEnter ==
    /\ searchMode' = FALSE
    /\ searchFocus' = FALSE
    /\ lastCmd' = "nil"
    /\ UNCHANGED <<pc, allRows, tableRows, tableCursor, searchValue, searchPos>>

(* SearchEsc without the call of filterRows *)
SearchEsc_NoRefilter ==
    /\ searchMode' = FALSE
    /\ searchFocus' = FALSE
    /\ searchValue' = ""
    /\ searchPos' = 0
    /\ lastCmd' = "nil"
    /\ UNCHANGED <<pc, allRows, tableRows, tableCursor>>

(* lines 101-107: esc cancels the search *)
SearchEsc ==
    /\ searchMode' = FALSE
    /\ searchFocus' = FALSE
    /\ searchValue' = ""
    /\ searchPos' = 0
    /\ tableRows' = filterRows(allRows, "")
    /\ tableCursor' = SetRowsCursor(tableCursor, filterRows(allRows, ""))
    /\ lastCmd' = "nil"
    /\ UNCHANGED <<pc, allRows>>

(* lines 110-112: any other key goes to the input, then the rows are filtered *)
SearchInput(key) ==
    LET s == IF searchFocus THEN searchUpdate(searchValue, searchPos, key)
             ELSE [value |-> searchValue, pos |-> searchPos]
        rows == filterRows(allRows, s.value)
    IN
    /\ key \in Runes => Len(searchValue) < MaxQuery
    /\ searchValue' = s.value
    /\ searchPos' = s.pos
    /\ tableRows' = rows
    /\ tableCursor' = SetRowsCursor(tableCursor, rows)
    /\ lastCmd' = "nil"
    /\ UNCHANGED <<pc, allRows, searchMode, searchFocus>>

(* lines 118-122: / opens the search *)
BrowseSlash ==
    /\ searchMode' = TRUE
    /\ searchFocus' = TRUE
    /\ searchValue' = ""
    /\ searchPos' = 0
    /\ lastCmd' = "nil"
    /\ UNCHANGED <<pc, allRows, tableRows, tableCursor>>

(* lines 124-125: q quits *)
BrowseQuit ==
    /\ lastCmd' = "quit"
    /\ pc' = "quitting"
    /\ UNCHANGED modelVars

(* lines 129-131: the table handles the key *)
BrowseTable(key) ==
    /\ tableCursor' = tableUpdate(tableCursor, tableRows, key)
    /\ lastCmd' = "nil"
    /\ UNCHANGED <<pc, allRows, tableRows, searchValue, searchPos, searchFocus, searchMode>>

(* lines 78-83: a key message arrives while the program runs *)
KeyMsg(key) ==
    /\ Running
    /\ lastKey' = key
    /\ UNCHANGED <<startupVars, exitCode, query>>

(* Update with the q of lines 124-125 tested before the search mode *)
Update_QuitBeforeSearch(key) ==
    \/ KeyMsg(key) /\ key = "ctrl+c" /\ CtrlC
    \/ KeyMsg(key) /\ key = "q" /\ BrowseQuit
    \/ KeyMsg(key) /\ key \notin {"ctrl+c", "q"} /\ searchMode /\ key = "enter" /\ SearchEnter
    \/ KeyMsg(key) /\ key \notin {"ctrl+c", "q"} /\ searchMode /\ key = "esc" /\ SearchEsc
    \/ KeyMsg(key) /\ key \notin {"ctrl+c", "q"} /\ searchMode /\ key \notin {"enter", "esc"}
          /\ SearchInput(key)
    \/ KeyMsg(key) /\ key \notin {"ctrl+c", "q"} /\ ~searchMode /\ key = "/" /\ BrowseSlash
    \/ KeyMsg(key) /\ key \notin {"ctrl+c", "q"} /\ ~searchMode /\ key # "/"
          /\ BrowseTable(key)

Update(key) ==
    \/ KeyMsg(key) /\ key = "ctrl+c" /\ CtrlC
    \/ KeyMsg(key) /\ key # "ctrl+c" /\ searchMode /\ key = "enter" /\ SearchEnter
    \/ KeyMsg(key) /\ key # "ctrl+c" /\ searchMode /\ key = "esc" /\ SearchEsc
    \/ KeyMsg(key) /\ key # "ctrl+c" /\ searchMode /\ key \notin {"enter", "esc"}
          /\ SearchInput(key)
    \/ KeyMsg(key) /\ key # "ctrl+c" /\ ~searchMode /\ key = "/" /\ BrowseSlash
    \/ KeyMsg(key) /\ key # "ctrl+c" /\ ~searchMode /\ key = "q" /\ BrowseQuit
    \/ KeyMsg(key) /\ key # "ctrl+c" /\ ~searchMode /\ key \notin {"/", "q"}
          /\ BrowseTable(key)

----------------------------------------------------------------------------
(* main *)

(* lines 299-303 *)
ResolveStep ==
    /\ pc = "start"
    /\ LET r == resolveConfigPath(args, envValue) IN
       /\ flagValue' = r.flag
       /\ configPath' = r.path
       /\ err' = r.err
       /\ IF r.err # ""
          THEN pc' = "exited" /\ exitCode' = 1
          ELSE pc' = "resolved" /\ UNCHANGED exitCode
    /\ UNCHANGED <<args, envValue, fileRead, loadedCfg, cfg, modelVars, lastKey, lastCmd, query>>

(* line 305, configPath == "": the built-in table is kept *)
LoadSkip ==
    /\ pc = "resolved"
    /\ configPath = ""
    /\ pc' = "loaded"
    /\ UNCHANGED <<startupVars, exitCode, modelVars, lastKey, lastCmd, query>>

(* LoadStep going on with the built-in table when the load fails *)
LoadStep_FallsBack(files) ==
    /\ pc = "resolved"
    /\ configPath # ""
    /\ \E file \in files :
         LET l == loadConfig(file) IN
         /\ fileRead' = file
         /\ loadedCfg' = l.cfg
         /\ err' = l.err
         /\ pc' = "loaded"
         /\ cfg' = IF l.err # "" THEN cfg ELSE l.cfg
         /\ UNCHANGED exitCode
    /\ UNCHANGED <<args, envValue, flagValue, configPath, modelVars, lastKey, lastCmd, query>>

(* lines 305-313: the file at configPath is one of files *)
LoadStep(files) ==
    /\ pc = "resolved"
    /\ configPath # ""
    /\ \E file \in files :
         LET l == loadConfig(file) IN
         /\ fileRead' = file
         /\ loadedCfg' = l.cfg
         /\ err' = l.err
         /\ IF l.err # ""
            THEN pc' = "exited" /\ exitCode' = 1 /\ UNCHANGED cfg
            ELSE pc' = "loaded" /\ cfg' = l.cfg /\ UNCHANGED exitCode
    /\ UNCHANGED <<args, envValue, flagValue, configPath, modelVars, lastKey, lastCmd, query>>

(* lines 315-345: the table, the input and the model are built *)
BuildStep ==
    /\ pc = "loaded"
    /\ LET rows == configRowsToTableRows(cfg.Rows.elems) IN
       /\ allRows' = rows
       /\ tableRows' = rows
    /\ tableCursor' = 0
    /\ searchValue' = ""
    /\ searchPos' = 0
    /\ searchFocus' = FALSE
    /\ searchMode' = FALSE
    /\ pc' = "loop"
    /\ UNCHANGED <<startupVars, exitCode, lastKey, lastCmd, query>>

(* line 347, Run returns nil after the quit command's message *)
RunReturns ==
    /\ pc = "quitting"
    /\ pc' = "exited"
    /\ exitCode' = 0
    /\ UNCHANGED <<startupVars, modelVars, lastKey, lastCmd, query>>

(* RunFails without the os.Exit(1) of line 349 *)
RunFails_ExitZero ==
    /\ Running
    /\ pc' = "exited"
    /\ err' = "run"
    /\ exitCode' = 0
    /\ UNCHANGED <<args, envValue, flagValue, configPath, fileRead, loadedCfg, cfg,
                   modelVars, lastKey, lastCmd, query>>

(* lines 347-350, Run returns an error *)
RunFails ==
    /\ Running
    /\ pc' = "exited"
    /\ err' = "run"
    /\ exitCode' = 1
    /\ UNCHANGED <<args, envValue, flagValue, configPath, fileRead, loadedCfg, cfg,
                   modelVars, lastKey, lastCmd, query>>

----------------------------------------------------------------------------
(* The whole program, from a few command lines and configuration files *)

SampleRows ==
    << [Mode |-> "normal", Keybind |-> "gd", Action |-> "go to definition"],
       [Mode |-> "normal", Keybind |-> "G", Action |-> "go to bottom of file"],
       [Mode |-> "visual", Keybind |-> "y", Action |-> "yank (copy) selection"] >>

StartupArgs == {<<>>, <<"--config", "./custom.json">>, <<"--unknown">>}
StartupEnvs == {"", " ./from-env.json "}
StartupFiles ==
    {Unreadable, Malformed, MalformedAfter(Absent, Array(SampleRows), Number(5)),
     JsonFile(Absent, Array(SampleRows), NoNumber)}

InitMain(argLists, envs) ==
    /\ args \in argLists
    /\ envValue \in envs
    /\ pc = "start"
    /\ flagValue = ""
    /\ configPath = ""
    /\ err = ""
    /\ fileRead = NoFile
    /\ loadedCfg = ZeroConfig
    /\ cfg = defaultConfig
    /\ exitCode = -1
    /\ allRows = <<>>
    /\ tableRows = <<>>
    /\ tableCursor = 0
    /\ searchValue = ""
    /\ searchPos = 0
    /\ searchFocus = FALSE
    /\ searchMode = FALSE
    /\ lastKey = ""
    /\ lastCmd = "nil"
    /\ query = ""

Init == InitMain(StartupArgs, StartupEnvs)

Next ==
    \/ ResolveStep
    \/ LoadSkip
    \/ LoadStep(StartupFiles)
    \/ BuildStep
    \/ \E key \in Keys : Update(key)
    \/ RunReturns
    \/ RunFails

Spec == Init /\ [][Next]_vars

----------------------------------------------------------------------------
(* resolveConfigPath alone, over every short argument list *)

ArgTokens ==
    {"--config", "-config", "--config=a.json", "--config= ", "--unknown",
     "stray", "--", " b.json ", "-h", "--=x"}

RECURSIVE SeqsUpTo(_, _)
SeqsUpTo(S, n) ==
    IF n = 0 THEN {<<>>}
    ELSE SeqsUpTo(S, n - 1) \cup
         {Append(s, x) : s \in {q \in SeqsUpTo(S, n - 1) : Len(q) = n - 1}, x \in S}

ArgLists == SeqsUpTo(ArgTokens, MaxArgs)
EnvValues == {"", " ", "b", " ./from-env.json "}

InitResolve == InitMain(ArgLists, EnvValues)

SpecResolve == InitResolve /\ [][ResolveStep]_vars

----------------------------------------------------------------------------
(* loadConfig alone, over files of every shape *)

OneColumn == << [Title |-> "Key", Width |-> 12] >>

FileColumns == {Absent, Null, Array(<<>>), Array(OneColumn), Array(DefaultColumns)}
FileRows == {Absent, Null} \cup {Array(SubSeq(SampleRows, 1, n)) : n \in 0..Min(MaxRows, Len(SampleRows))}
FileHeights == {NoNumber, Number(-1), Number(0), Number(1), Number(7), Number(12)}

AllFiles ==
    {Unreadable, Malformed, MalformedAfter(Array(OneColumn), Null, Number(5))} \cup
    {JsonFile(c, r, h) : c \in FileColumns, r \in FileRows, h \in FileHeights}

InitLoad == InitMain({<<"--config", "./custom.json">>, <<>>}, {" ./from-env.json "})

NextLoad == ResolveStep \/ LoadStep(AllFiles)

SpecLoad == InitLoad /\ [][NextLoad]_vars

----------------------------------------------------------------------------
(* filterRows alone, called on a model with any short row set *)

RowPool ==
    { <<"normal", "gd", "go to definition">>,
      <<"normal", "G", "go to bottom of file">>,
      <<"visual", "y", "Yank (copy) selection">>,
      <<"insert", "<C-w>", "delete word">> }

QueryPool == {"", "GD", "gd", "g", "V", "o d", "zz", "C-W", "normal"}

(* m.filterRows(query) on a model whose allRows are set *)
FilterCall ==
    /\ pc = "call"
    /\ tableRows' = filterRows(allRows, query)
    /\ pc' = "return"
    /\ UNCHANGED <<startupVars, exitCode, allRows, tableCursor, searchValue,
                   searchPos, searchFocus, searchMode, lastKey, lastCmd, query>>

InitFilter ==
    /\ args = <<>>
    /\ envValue = ""
    /\ pc = "call"
    /\ flagValue = ""
    /\ configPath = ""
    /\ err = ""
    /\ fileRead = NoFile
    /\ loadedCfg = ZeroConfig
    /\ cfg = defaultConfig
    /\ exitCode = -1
    /\ allRows \in SeqsUpTo(RowPool, MaxRows)
    /\ tableRows = allRows
    /\ tableCursor = 0
    /\ searchValue = ""
    /\ searchPos = 0
    /\ searchFocus = FALSE
    /\ searchMode = FALSE
    /\ lastKey = ""
    /\ lastCmd = "nil"
    /\ query \in QueryPool

SpecFilter == InitFilter /\ [][FilterCall]_vars

----------------------------------------------------------------------------
(* What the claims speak of *)

(* The row set loaded at startup *)
StartupRows == configRowsToTableRows(cfg.Rows.elems)

(* A step in which Update handled key k and the program went on running *)
KeyStep(k) == Running /\ Running' /\ lastKey' = k

(* RowFilter as the specification words it: every field is looked at *)
RowHasMatch(row, q) == \E j \in 1..Len(row) : Contains(ToLower(row[j]), ToLower(q))
RowFilter(rows, q) == SelectSeq(rows, LAMBDA row : RowHasMatch(row, q))

(* result is rows with exactly the rows at the indices K, in order *)
IsSelection(result, rows, K) ==
    /\ Len(result) = Cardinality(K)
    /\ \A k \in 1..Len(result) :
         result[k] = rows[CHOOSE i \in K : Cardinality({m \in K : m < i}) = k - 1]

(* t is s without its leading and trailing white space *)
IsTrimOf(t, s) ==
    \E i \in 0..Len(s) : \E j \in i..Len(s) :
        /\ t = SubSeq(s, i + 1, j)
        /\ \A k \in 1..i : IsSpace(Char(s, k))
        /\ \A k \in (j + 1)..Len(s) : IsSpace(Char(s, k))
        /\ t # "" => ~IsSpace(Char(t, 1)) /\ ~IsSpace(Char(t, Len(t)))

AllSpace(s) == \A k \in 1..Len(s) : IsSpace(Char(s, k))

FlagErrors ==
    {"bad flag syntax", "flag provided but not defined", "flag: help requested",
     "flag needs an argument"}
LoadErrors == {"read", "unmarshal"}
StartupErrors == FlagErrors \cup LoadErrors

(* C1: in Searching, escape leaves the controller in Browsing with an empty
   query and the displayed rows equal to the startup row set, in order. *)
C1_EscapeRestoresStartupRows ==
    [][KeyStep("esc") /\ searchMode =>
          /\ ~searchMode'
          /\ searchValue' = ""
          /\ tableRows' = StartupRows
          /\ allRows' = StartupRows]_vars

(* C1 witness: escape has restored the rows after a search that had emptied
   the table (the cursor was pulled to -1 by the empty row list). *)
C1_Witness ==
    /\ pc = "loop"
    /\ lastKey = "esc"
    /\ ~searchMode
    /\ searchValue = ""
    /\ tableCursor = -1
    /\ Len(StartupRows) > 0
    /\ tableRows = StartupRows

(* C2: after every key event, in both modes, the displayed rows are
   RowFilter(startup row set, current query), and allRows is the startup
   row set. *)
C2_ViewIsFilterOfQuery ==
    Running => /\ tableRows = RowFilter(allRows, searchValue)
               /\ allRows = StartupRows

(* C3: filterRows displays exactly the rows with a field whose lowercased
   text contains the lowercased query, once each and in order; the full set
   for the empty query; the same as the filter without the short-circuit. *)
C3_FilterRowsIsRowFilter ==
    pc = "return" =>
        /\ IsSelection(tableRows, allRows,
                       {i \in 1..Len(allRows) : RowHasMatch(allRows[i], query)})
        /\ tableRows = RowFilter(allRows, query)
        /\ query = "" => tableRows = allRows

(* C3 witness: "GD" has selected the gd row out of two rows. *)
C3_Witness ==
    /\ pc = "return"
    /\ query = "GD"
    /\ Len(allRows) = 2
    /\ Len(tableRows) = 1
    /\ tableRows[1][2] = "gd"

(* C4: in Searching, enter moves to Browsing and keeps the query and the
   displayed rows; the keys the table then handles keep them too. *)
C4_EnterKeepsQueryAndRows ==
    [][/\ KeyStep("enter") /\ searchMode =>
             /\ ~searchMode'
             /\ searchValue' = searchValue
             /\ tableRows' = tableRows
       /\ \A k \in Keys \ {"ctrl+c", "/", "q"} :
             KeyStep(k) /\ ~searchMode =>
                 /\ ~searchMode'
                 /\ searchValue' = searchValue
                 /\ tableRows' = tableRows]_vars

(* C4 witness: Browsing after a committed search, the filtered rows and the
   query still there after the table moved its cursor down. *)
C4_Witness ==
    /\ pc = "loop"
    /\ ~searchMode
    /\ lastKey = "down"
    /\ searchValue = "g"
    /\ tableCursor = 1
    /\ Len(tableRows) < Len(allRows)
    /\ tableRows = RowFilter(allRows, "g")

(* C5: ctrl+c gives the quit command in both modes and changes neither the
   mode, the query nor the rows; q gives it in Browsing only; in Searching q
   goes into the query, the rows are filtered again and nothing quits. *)
C5_InterruptAndQuitKeys ==
    [][/\ KeyStep("ctrl+c") =>
             /\ lastCmd' = "quit"
             /\ pc' = "quitting"
             /\ UNCHANGED <<searchMode, searchValue, tableRows>>
       /\ KeyStep("q") /\ ~searchMode =>
             /\ lastCmd' = "quit"
             /\ pc' = "quitting"
       /\ KeyStep("q") /\ searchMode =>
             /\ lastCmd' = "nil"
             /\ pc' = pc
             /\ searchMode'
             /\ searchValue' = SubSeq(searchValue, 1, searchPos) \o "q"
                                  \o SubSeq(searchValue, searchPos + 1, Len(searchValue))
             /\ tableRows' = RowFilter(allRows, searchValue')
       /\ \A k \in Keys \ {"ctrl+c", "q"} : KeyStep(k) => lastCmd' = "nil" /\ pc' = pc]_vars

(* C5 witness: q typed in Searching is the query and the program runs on. *)
C5_Witness ==
    /\ pc = "loop"
    /\ searchMode
    /\ lastKey = "q"
    /\ searchValue = "q"
    /\ lastCmd = "nil"

(* C6: when the arguments parse, the path is the trimmed --config value if
   that is not empty, else the trimmed environment value, and empty when
   both are empty or white space. *)
C6_FlagThenEnvironment ==
    pc = "resolved" =>
        /\ err = ""
        /\ args = <<>> => flagValue = ""
        /\ Len(args) = 2 /\ args[1] \in {"--config", "-config"} => flagValue = args[2]
        /\ IF ~AllSpace(flagValue)
           THEN IsTrimOf(configPath, flagValue)
           ELSE IsTrimOf(configPath, envValue)
        /\ AllSpace(flagValue) /\ AllSpace(envValue) => configPath = ""

(* C6 witness: a flag value of white space only has fallen back to the
   trimmed environment value. *)
C6_Witness ==
    /\ pc = "resolved"
    /\ args = <<"--config= ">>
    /\ envValue = " ./from-env.json "
    /\ configPath = "./from-env.json"

(* The argument lists made of nothing but the --config option and its value *)
IsConfigOption(s) ==
    \E n \in 1..2 :
        /\ Len(s) >= n + 7
        /\ SubSeq(s, 1, n) \in {"-", "--"}
        /\ SubSeq(s, n + 1, n + 7) = "config="
RECURSIVE OnlyConfigOption(_)
OnlyConfigOption(a) ==
    \/ a = <<>>
    \/ Len(a) >= 2 /\ a[1] \in {"--config", "-config"} /\ OnlyConfigOption(SubSeq(a, 3, Len(a)))
    \/ Len(a) >= 1 /\ IsConfigOption(a[1]) /\ OnlyConfigOption(Tail(a))

(* C7: every argument list holding any flag or argument other than --config
   with its value is refused with an error and an empty path (stated for the
   lists without the terminator "--"). *)
C7_OtherArgumentsRejected ==
    pc # "start" /\ ~OnlyConfigOption(args) /\ (\A i \in 1..Len(args) : args[i] # "--") =>
        /\ pc = "exited"
        /\ err \in FlagErrors
        /\ configPath = ""

(* C8: a Configuration loaded without error has the built-in columns when
   the file's are absent or empty, height 7 when the file's is absent or
   <= 0, the file's rows or an empty non-nil sequence; so columns is never
   empty, height is > 0 and rows is never nil. *)
C8_LoadedConfigIsNormalized ==
    pc = "loaded" =>
        /\ fileRead.kind = "json"
        /\ err = ""
        /\ cfg = loadedCfg
        /\ cfg.Columns = IF fileRead.columns.kind = "value" /\ fileRead.columns.v # <<>>
                         THEN Slice(fileRead.columns.v)
                         ELSE Slice(DefaultColumns)
        /\ cfg.Height = IF fileRead.height.kind = "value" /\ fileRead.height.v > 0
                        THEN fileRead.height.v
                        ELSE 7
        /\ cfg.Rows = IF fileRead.rows.kind = "value"
                      THEN Slice(fileRead.rows.v)
                      ELSE Slice(<<>>)
        /\ Len(cfg.Columns.elems) > 0
        /\ cfg.Height > 0
        /\ ~cfg.Rows.nil

(* C8 witness: a file with only rows has been given the three built-in
   columns and height 7. *)
C8_Witness ==
    /\ pc = "loaded"
    /\ fileRead = JsonFile(Absent, Array(SubSeq(SampleRows, 1, 1)), NoNumber)
    /\ cfg.Columns.elems = DefaultColumns
    /\ cfg.Height = 7
    /\ Len(cfg.Rows.elems) = 1

(* C9: when the file cannot be read or decoded, loadConfig returns the zero
   Configuration with the error, and the program exits with a non-zero code
   without building the table or handling a key. *)
C9_LoadErrorEndsStartup ==
    (err \in LoadErrors \/ fileRead.kind \in {"unreadable", "malformed"}) =>
        /\ err \in LoadErrors
        /\ loadedCfg = ZeroConfig
        /\ cfg = defaultConfig
        /\ pc = "exited"
        /\ exitCode # 0
        /\ allRows = <<>>
        /\ tableRows = <<>>
        /\ lastKey = ""

(* C9 witness: the program has exited with code 1 on a file that stops
   decoding after its rows and height, and nothing of them was returned. *)
C9_Witness ==
    /\ pc = "exited"
    /\ fileRead = MalformedAfter(Absent, Array(SampleRows), Number(5))
    /\ err = "unmarshal"
    /\ exitCode = 1
    /\ loadedCfg = ZeroConfig

(* C10 as claimed: a non-zero exit code only on a startup configuration
   error; every run that reached the interactive loop ends with code 0. *)
C10_NonZeroOnlyAtStartup ==
    pc = "exited" =>
        /\ exitCode # 0 => err \in StartupErrors
        /\ err \notin StartupErrors => exitCode = 0

(* C10 as amended: a non-zero exit code only on a startup configuration
   error or when Run returns an error; a run that reached the loop and whose
   Run returned no error ends with code 0. *)
C10_NonZeroOnlyOnError ==
    pc = "exited" =>
        /\ exitCode \in {0, 1}
        /\ err \in StartupErrors \cup {"", "run"}
        /\ exitCode # 0 <=> err # ""

(* C10 witness: the loop ran, q quit it and the exit code is 0. *)
C10_Witness ==
    /\ pc = "exited"
    /\ exitCode = 0
    /\ err = ""
    /\ lastKey = "q"
    /\ lastCmd = "quit"

=============================================================================
